---- MODULE Spec2Model ----
(***************************************************************************)
(* Model of the recursive-descent parser that backend/rust.rs emits.       *)
(*                                                                         *)
(* The generator (RustOutput) turns an annotated grammar (Module, Element, *)
(* Regex with first/follow/predict/cancel sets) into Rust text.  The model *)
(* keeps the grammar IR as data and interprets, one emitted statement or   *)
(* match per step, the control flow that each template of output_regex,    *)
(* output_error_handler, output_check_limit, output_consumes and           *)
(* output_parser writes for it, on a token stream.  A second specification *)
(* (GenSpec) runs create_parser itself: the writes it makes to parser.rs,  *)
(* in order, for a module, with any write allowed to fail.                 *)
(***************************************************************************)
EXTENDS Naturals, Sequences, FiniteSets

VARIABLES
    g,          \* the annotated grammar (Module): read-only during a run
    input,      \* the tokens the stream will deliver (kinds), EOF excluded
    pos,        \* index of the lookahead in input; 0 before the first advance()
    ctl,        \* what the emitted code executes next
    stack,      \* pending continuations: rule calls, closures, loops
    out,        \* result of Parser::parse once it has returned
    log,        \* what the run did so far (list of events)
    finalized,  \* number of input.finalize() calls so far
    postFinal,  \* a current()/advance() happened after a finalize()
    eofSkip,    \* the resync loop called advance() while the lookahead was EOF
    gpc,        \* what create_parser does next
    file,       \* the writes made to parser.rs so far in this run, in order
    attempts,   \* number of write_all calls made in this run, failed one included
    ret,        \* what create_parser returned in this run
    prev        \* file and result of the previous run on the same module

genVars == <<gpc, file, attempts, ret, prev>>

vars == <<g, input, pos, ctl, stack, out, log, finalized, postFinal, eofSkip, genVars>>

(***************************************************************************)
(* Symbols.  A Symbol is an interned handle, totally ordered by its index. *)
(***************************************************************************)
EOF == 0
X == 1
B == 2
Y == 3
Z == 4
G == 5

\* Longest token stream explored.
MaxLen == 4

\* Limit depth used when the module declares no Limit element.
DefaultLimit == 128

Min(S) == CHOOSE x \in S : \A y \in S : x <= y

\* Iteration order of a BTreeSet<Symbol>: ascending in the symbols' order.
RECURSIVE Ordered(_)
Ordered(S) == IF S = {} THEN <<>> ELSE <<Min(S)>> \o Ordered(S \ {Min(S)})

\* Generator::pattern: the token kinds the rendered match pattern accepts.
Pattern(S) == IF S # {} THEN S ELSE {EOF}

\* Generator::error: the list of default values rendered for err![...].
ErrorList(S) == IF S # {} THEN Ordered(S) ELSE <<EOF>>

(***************************************************************************)
(* Grammar IR.  A Regex node carries its kind, what it refers to, its      *)
(* operands, its error operand (0: none) and the precomputed sets.         *)
(***************************************************************************)
Node(kind, elem, ref, ops, error, first, follow, predict, cancel) ==
    [kind |-> kind, elem |-> elem, ref |-> ref, ops |-> ops, error |-> error,
     first |-> first, follow |-> follow, predict |-> predict, cancel |-> cancel]

IdToken(s) == Node("Id", "Token", s, <<>>, 0, {s}, {}, {s}, {})
StrToken(s) == Node("Str", "Token", s, <<>>, 0, {s}, {}, {s}, {})
IdRule(r, fi) == Node("Id", "Rule", r, <<>>, 0, fi, {}, fi, {})
ActionNode(v) == Node("Action", "Action", v, <<>>, 0, {}, {}, {}, {})
PredicateNode(v) == Node("Predicate", "Predicate", v, <<>>, 0, {}, {}, {}, {})
ErrorHandlerNode(v, fo, ca) == Node("ErrorHandler", "ErrorHandler", v, <<>>, 0, {}, fo, fo, ca)
Unused == Node("Unused", "None", 0, <<>>, 0, {}, {}, {}, {})

Rule(start, regex) == [start |-> start, regex |-> regex]

Module(nodes, rules, hasLimit, depth, hasError) ==
    [nodes |-> nodes, rules |-> rules, hasLimit |-> hasLimit, depth |-> depth,
     hasError |-> hasError]

\* start: X B Y !1 ;   with follow(!1) = fo and cancel(!1) = ca
ResyncGrammar(fo, ca) ==
    Module(<< Node("Concat", "None", 0, <<2, 3, 4, 5>>, 5, {X}, fo, {X}, {}),
              IdToken(X), IdToken(B), IdToken(Y), ErrorHandlerNode(1, fo, ca) >>,
           << Rule(TRUE, 1) >>, FALSE, 0, TRUE)

\* start: ( ?1 #1 | ( ?2 #2 ) | !1 ) ;   predicates and handler optional
OrGrammar(p1, p2, gated1, gated2, withError) ==
    Module(<< Node("Or", "None", 0, IF withError THEN <<2, 5, 9>> ELSE <<2, 5>>,
                   IF withError THEN 9 ELSE 0, p1 \cup p2, {EOF}, p1 \cup p2, {}),
              Node("Concat", "None", 0, IF gated1 THEN <<3, 4>> ELSE <<4>>, 0, p1, {EOF}, p1, {}),
              PredicateNode(1),
              ActionNode(1),
              Node("Paren", "None", 0, <<6>>, 0, p2, {EOF}, p2, {}),
              Node("Concat", "None", 0, IF gated2 THEN <<7, 8>> ELSE <<8>>, 0, p2, {EOF}, p2, {}),
              PredicateNode(2),
              ActionNode(2),
              IF withError THEN ErrorHandlerNode(1, {Z}, {}) ELSE Unused >>,
           << Rule(TRUE, 1) >>, FALSE, 0, TRUE)

\* start: ( ?1 op )+ ;   op consumes one token of fi
PlusGrammar(fi, fo, gated) ==
    Module(<< Node("Plus", "None", 0, <<2>>, 0, fi, fo, fi, {}),
              Node("Concat", "None", 0, IF gated THEN <<3, 4>> ELSE <<4>>, 0, fi, fi \cup fo, fi, {}),
              PredicateNode(1),
              IF fi = {B} THEN IdToken(B)
              ELSE IF fi = {Y} THEN IdToken(Y)
              ELSE Node("Or", "None", 0, <<5, 6>>, 0, fi, fi \cup fo, fi, {}),
              IdToken(B), IdToken(Y) >>,
           << Rule(TRUE, 1) >>, FALSE, 0, TRUE)

\* start: ( ?1 B )* ;   with follow of the loop = fo
StarGrammar(fo, gated) ==
    Module(<< Node("Star", "None", 0, <<2>>, 0, {B}, fo, {B} \cup fo, {}),
              Node("Concat", "None", 0, IF gated THEN <<3, 4>> ELSE <<4>>, 0, {B}, {B} \cup fo, {B}, {}),
              PredicateNode(1),
              IdToken(B) >>,
           << Rule(TRUE, 1) >>, FALSE, 0, TRUE)

\* start: A* ;   A: X A* Y !1 ;
DepthGrammar(hasLimit, depth, hasError, withError) ==
    Module(<< Node("Star", "None", 0, <<2>>, 0, {X}, {EOF}, {X, EOF}, {}),
              IdRule(2, {X}),
              Node("Concat", "None", 0, IF withError THEN <<4, 5, 7, 8>> ELSE <<4, 5, 7>>,
                   IF withError THEN 8 ELSE 0, {X}, {X, Y, EOF}, {X}, {}),
              IdToken(X),
              Node("Star", "None", 0, <<6>>, 0, {X}, {Y}, {X, Y}, {}),
              IdRule(2, {X}),
              IdToken(Y),
              IF withError THEN ErrorHandlerNode(1, {X, Y, EOF}, {}) ELSE Unused >>,
           << Rule(TRUE, 1), Rule(FALSE, 3) >>, hasLimit, depth, hasError)

\* start: A ;   A: A X ;   (left recursion: only the depth guard stops it)
LeftRecGrammar(hasLimit, depth, hasError) ==
    Module(<< IdRule(2, {X}),
              Node("Concat", "None", 0, <<3, 4>>, 0, {X}, {EOF}, {X}, {}),
              IdRule(2, {X}),
              IdToken(X) >>,
           << Rule(TRUE, 1), Rule(FALSE, 2) >>, hasLimit, depth, hasError)

\* start: X ( 'B' )* [ Y ] #1 Z ;
MiscGrammar ==
    Module(<< Node("Concat", "None", 0, <<2, 3, 6, 8, 9>>, 0, {X}, {EOF}, {X}, {}),
              IdToken(X),
              Node("Star", "None", 0, <<4>>, 0, {B}, {Y, Z}, {B, Y, Z}, {}),
              Node("Paren", "None", 0, <<5>>, 0, {B}, {B, Y, Z}, {B}, {}),
              StrToken(B),
              Node("Option", "None", 0, <<7>>, 0, {Y}, {Z}, {Y, Z}, {}),
              IdToken(Y),
              ActionNode(1),
              IdToken(Z) >>,
           << Rule(TRUE, 1) >>, FALSE, 0, TRUE)

\* Declared payload type of a token: token Y{i64}; the others carry none.
TyOf(s) == IF s = Y THEN << "i64" >> ELSE << >>

Streams(alphabet) == UNION { [1..n -> alphabet] : n \in 0..MaxLen }

(***************************************************************************)
(* Token stream capability (TokenStream): current(), advance().  At the    *)
(* end of the tokens the lookahead is EOF and stays EOF.                   *)
(***************************************************************************)
Current == IF pos \in 1..Len(input) THEN input[pos] ELSE EOF
AdvancePos(p) == IF p <= Len(input) THEN p + 1 ELSE p

\* postFinal after one more current()/advance().
Touch == postFinal \/ finalized > 0

NoErr == [k |-> "none", exp |-> <<>>]
SyntaxError(expected) == [k |-> "syntax", exp |-> expected]
ParserError == [k |-> "parser", exp |-> <<>>]

\* create_parser: the statement it is at (i: index of the element in turn).
GenAt(at, i) == [at |-> at, i |-> i]
NoRun == [ret |-> "none", file |-> << >>]

Ctl(m, n, i, e) == [m |-> m, n |-> n, i |-> i, e |-> e]
Frame(k, n, i, e) == [k |-> k, n |-> n, i |-> i, e |-> e]
Ev(ev, a, b) == [ev |-> ev, a |-> a, b |-> b]

Ok == Ctl("ok", 0, 0, NoErr)
Err(e) == Ctl("err", 0, 0, e)
Exec(n) == Ctl("exec", n, 0, NoErr)
Done == Ctl("done", 0, 0, NoErr)

Top == stack[Len(stack)]
Pop == SubSeq(stack, 1, Len(stack) - 1)
Push(f) == Append(stack, f)

\* The depth argument of the routine that is executing.
RECURSIVE DepthOf(_)
DepthOf(s) == IF s = <<>> THEN 0
              ELSE IF s[Len(s)].k = "rule" THEN s[Len(s)].i
              ELSE DepthOf(SubSeq(s, 1, Len(s) - 1))

\* The element the entry routine calls as Self::start.
StartRule == CHOOSE r \in 1..Len(g.rules) : g.rules[r].start

\* output_check_limit: the limit written into check_limit!, and its test.
Limit == IF g.hasLimit THEN g.depth ELSE DefaultLimit

\* Variant: the guard trips one level early.
CheckLimitInclusive(depth, limit) == depth >= limit

CheckLimit(depth, limit) == depth > limit

\* get_predicate: whether the arm of regex n carries an `if <predicate>` guard.
RECURSIVE GetPredicate(_)
GetPredicate(n) ==
    LET r == g.nodes[n] IN
    CASE r.kind = "Concat" -> g.nodes[r.ops[1]].kind = "Predicate"
                              /\ g.nodes[r.ops[1]].elem = "Predicate"
      [] r.kind = "Paren" -> GetPredicate(r.ops[1])
      [] OTHER -> FALSE

\* Values the predicates of the arms of ops can take when a match is evaluated.
Guards(ops) ==
    { pv \in [1..Len(ops) -> BOOLEAN] : \A i \in 1..Len(ops) : ~GetPredicate(ops[i]) => pv[i] }

\* The guard of the arm of regex op is evaluated (only when its pattern
\* accepts the lookahead) with value p.
GuardEv(op, tok, set, p) ==
    IF GetPredicate(op) /\ tok \in Pattern(set)
    THEN << Ev("guard", op, IF p THEN 1 ELSE 0) >> ELSE << >>

\* Or: the guards evaluated, in branch order, up to the arm taken (k), or all
\* of them when the `_` arm is reached (k = 0).
RECURSIVE OrGuardEvs(_, _, _, _, _)
OrGuardEvs(ops, tok, pv, k, i) ==
    IF i > Len(ops) \/ (k # 0 /\ i > k) THEN << >>
    ELSE (IF g.nodes[ops[i]].kind # "ErrorHandler"
          THEN GuardEv(ops[i], tok, g.nodes[ops[i]].predict, pv[i]) ELSE << >>)
         \o OrGuardEvs(ops, tok, pv, k, i + 1)

(***************************************************************************)
(* The matches the templates emit, as functions of the lookahead.          *)
(***************************************************************************)
\* Or: the first arm, in branch order, whose pattern and guard accept the
\* lookahead; ErrorHandler members get no arm.  0: the `_` arm.
RECURSIVE OrArmFrom(_, _, _, _)
OrArmFrom(ops, tok, pv, i) ==
    IF i > Len(ops) THEN 0
    ELSE IF g.nodes[ops[i]].kind # "ErrorHandler"
            /\ tok \in Pattern(g.nodes[ops[i]].predict) /\ pv[i] THEN i
    ELSE OrArmFrom(ops, tok, pv, i + 1)

\* Variant: the guards of the arms are left out.
OrArmUnguarded(ops, tok, pv) == OrArmFrom(ops, tok, [i \in DOMAIN pv |-> TRUE], 1)

OrArm(ops, tok, pv) == OrArmFrom(ops, tok, pv, 1)

\* Variant: the exit arm is written before the arm of the operand.
StarArmExitFirst(tok, p, fi, fo) ==
    IF tok \in Pattern(fo) THEN "break"
    ELSE IF tok \in Pattern(fi) /\ p THEN "op"
    ELSE "err"

\* Star and Option: first(op) [if predicate] / follow / `_`.
StarArm(tok, p, fi, fo) ==
    IF tok \in Pattern(fi) /\ p THEN "op"
    ELSE IF tok \in Pattern(fo) THEN "break"
    ELSE "err"

\* Variant: is_first is never consulted.
PlusArmNoFirst(tok, isFirst, p, fi, fo) ==
    IF tok \in Pattern(fi) /\ p THEN "op"
    ELSE IF tok \in Pattern(fo) THEN "break"
    ELSE "later"

\* Plus: first(op) [if predicate] / follow if !is_first / _ if is_first / _.
PlusArm(tok, isFirst, p, fi, fo) ==
    IF tok \in Pattern(fi) /\ p THEN "op"
    ELSE IF tok \in Pattern(fo) /\ ~isFirst THEN "break"
    ELSE IF isFirst THEN "first"
    ELSE "later"

\* Plus: the list inside err![...] of the two failing arms.
PlusError(arm, fi, fo) ==
    IF arm = "first" THEN ErrorList(fi) ELSE ErrorList(fi) \o ErrorList(fo)

\* Variant: the cancel arm is emitted before the recovery arm.
ResyncArmCancelFirst(tok, fo, ca) ==
    IF ca # {} /\ tok \in Pattern(ca) THEN "reraise"
    ELSE IF tok \in Pattern(fo) THEN "recover"
    ELSE "skip"

\* Resync loop: follow(error) / cancel(error), emitted only if non-empty / `_`.
ResyncArm(tok, fo, ca) ==
    IF tok \in Pattern(fo) THEN "recover"
    ELSE IF ca # {} /\ tok \in Pattern(ca) THEN "reraise"
    ELSE "skip"

\* Variant: the entry routine does not look at the rest of the input.
EntryResultLax(tok) == [k |-> "ok", exp |-> <<>>]

\* The test the entry routine makes after Start has succeeded.
EntryResult(tok) ==
    IF tok # EOF THEN SyntaxError(<<EOF>>) ELSE [k |-> "ok", exp |-> <<>>]

(***************************************************************************)
(* Initial states: a grammar, a token stream, the parser not yet called.   *)
(***************************************************************************)
ResyncFollows == { {}, {Y}, {Y, EOF} }
ResyncCancels == { {}, {Z}, {Y, Z}, {Z, EOF} }
OrPredicts1 == { {X}, {}, {X, Y} }
OrPredicts2 == { {Y}, {} }
PlusFirsts == { {B}, {Y}, {B, Y} }
PlusFollows == { {}, {B}, {Y}, {Y, EOF} }
StarFollows == { {}, {EOF}, {Y, EOF}, {B, Y} }
Limits == { 1, 2 }

Init ==
    /\ \/ \E fo \in ResyncFollows, ca \in ResyncCancels :
             /\ g = ResyncGrammar(fo, ca)
             /\ input \in Streams({X, B, Y, Z, G})
       \/ \E p1 \in OrPredicts1, p2 \in OrPredicts2, g1 \in BOOLEAN, g2 \in BOOLEAN,
             we \in BOOLEAN :
             /\ g = OrGrammar(p1, p2, g1, g2, we)
             /\ input \in Streams({X, Y, Z})
       \/ \E fi \in PlusFirsts, fo \in PlusFollows, gated \in BOOLEAN :
             /\ g = PlusGrammar(fi, fo, gated)
             /\ input \in Streams({B, Y, Z})
       \/ \E fo \in StarFollows, gated \in BOOLEAN :
             /\ g = StarGrammar(fo, gated)
             /\ input \in Streams({B, Y, Z})
       \/ \E d \in Limits, he \in BOOLEAN, we \in BOOLEAN :
             /\ g = DepthGrammar(TRUE, d, he, we)
             /\ input \in Streams({X, Y})
       \/ \E hl \in BOOLEAN, d \in Limits, he \in BOOLEAN :
             /\ g = LeftRecGrammar(hl, d, he)
             /\ input \in Streams({X})
       \/ /\ g = MiscGrammar
          /\ input \in Streams({X, B, Y, Z})
    /\ pos = 0
    /\ ctl = Ctl("init", 0, 0, NoErr)
    /\ stack = <<>>
    /\ out = [k |-> "running", exp |-> <<>>]
    /\ log = <<>>
    /\ finalized = 0
    /\ postFinal = FALSE
    /\ eofSkip = FALSE
    /\ gpc = GenAt("done", 0)
    /\ file = << >>
    /\ attempts = 0
    /\ ret = "ok"
    /\ prev = NoRun

(***************************************************************************)
(* Entry routine and rule routines.                                        *)
(***************************************************************************)
\* Parser::parse: input.advance(); Self::start(0, input)
Parse ==
    /\ ctl.m = "init"
    /\ pos' = AdvancePos(pos)
    /\ postFinal' = Touch
    /\ stack' = Push(Frame("entry", 0, 0, NoErr))
    /\ ctl' = Ctl("call", StartRule, 0, NoErr)
    /\ UNCHANGED <<genVars, g, input, out, log, finalized, eofSkip>>

\* A routine is entered: start has no guard, a rule passes check_limit!.
EnterRule ==
    /\ ctl.m = "call"
    /\ ~g.rules[ctl.n].start => ~CheckLimit(ctl.i, Limit)
    /\ stack' = Push(Frame("rule", ctl.n, ctl.i, NoErr))
    /\ ctl' = Exec(g.rules[ctl.n].regex)
    /\ log' = Append(log, Ev("enter", ctl.n, ctl.i))
    /\ UNCHANGED <<genVars, g, input, pos, out, finalized, postFinal, eofSkip>>

\* check_limit! trips: finalize and return the ParserError, or panic when the
\* module declares no error code.
CheckLimitFail ==
    /\ ctl.m = "call"
    /\ ~g.rules[ctl.n].start
    /\ CheckLimit(ctl.i, Limit)
    /\ log' = Append(log, Ev("limit", ctl.n, ctl.i))
    /\ IF g.hasError
       THEN /\ finalized' = finalized + 1
            /\ ctl' = Err(ParserError)
            /\ out' = out
       ELSE /\ finalized' = finalized
            /\ ctl' = Done
            /\ out' = [k |-> "panic", exp |-> <<>>]
    /\ UNCHANGED <<genVars, g, input, pos, stack, postFinal, eofSkip>>

\* `?` after a rule call that returned Ok.
RuleReturn ==
    /\ ctl.m = "ok"
    /\ Top.k = "rule"
    /\ stack' = Pop
    /\ UNCHANGED <<genVars, g, input, pos, ctl, out, log, finalized, postFinal, eofSkip>>

\* Parser::parse after Start returned Ok: the lookahead must be EOF.
EntryReturn ==
    /\ ctl.m = "ok"
    /\ Top.k = "entry"
    /\ out' = EntryResult(Current)
    /\ postFinal' = Touch
    /\ ctl' = Done
    /\ stack' = Pop
    /\ UNCHANGED <<genVars, g, input, pos, log, finalized, eofSkip>>

\* Parser::parse: `?` on a failed Start returns the failure.
EntryFail ==
    /\ ctl.m = "err"
    /\ Top.k = "entry"
    /\ out' = ctl.e
    /\ ctl' = Done
    /\ stack' = Pop
    /\ UNCHANGED <<genVars, g, input, pos, log, finalized, postFinal, eofSkip>>

\* Variant: a sequence goes on with its next operand after one has failed.
PropagateResuming ==
    /\ ctl.m = "err"
    /\ Top.k \in {"rule", "concat", "star", "plus", "recover"}
    /\ IF Top.k = "concat" /\ Top.i < Len(g.nodes[Top.n].ops)
       THEN ctl' = Ok /\ stack' = stack
       ELSE ctl' = ctl /\ stack' = Pop
    /\ UNCHANGED <<genVars, g, input, pos, out, log, finalized, postFinal, eofSkip>>

\* `return err![..]` and `?` leave loops, sequences and routines up to the
\* nearest closure of a failure boundary.
Propagate ==
    /\ ctl.m = "err"
    /\ Top.k \in {"rule", "concat", "star", "plus", "recover"}
    /\ stack' = Pop
    /\ UNCHANGED <<genVars, g, input, pos, ctl, out, log, finalized, postFinal, eofSkip>>

(***************************************************************************)
(* output_regex: one action per construct.                                 *)
(***************************************************************************)
At(kind) == ctl.m = "exec" /\ g.nodes[ctl.n].kind = kind

\* Id referencing a Rule: Self::r#name(depth + 1, input)?
ExecIdRule ==
    /\ ctl.m = "exec"
    /\ g.nodes[ctl.n].kind = "Id" /\ g.nodes[ctl.n].elem = "Rule"
    /\ ctl' = Ctl("call", g.nodes[ctl.n].ref, DepthOf(stack) + 1, NoErr)
    /\ UNCHANGED <<genVars, g, input, pos, stack, out, log, finalized, postFinal, eofSkip>>

\* consume_name!: the number of values the macro evaluates to, range alone
\* or (value, range).
Bound(s) == IF TyOf(s) = << >> THEN 1 ELSE 2

\* Variant: the token is taken before its kind is tested.
ExecTokenEager ==
    /\ ctl.m = "exec"
    /\ g.nodes[ctl.n].kind \in {"Id", "Str"} /\ g.nodes[ctl.n].elem = "Token"
    /\ postFinal' = Touch
    /\ pos' = AdvancePos(pos)
    /\ IF Current = g.nodes[ctl.n].ref
       THEN /\ ctl' = Ok
            /\ log' = log \o << Ev("consume", ctl.n, Current),
                                Ev("bind", ctl.n, Bound(g.nodes[ctl.n].ref)) >>
       ELSE /\ ctl' = Err(SyntaxError(<<g.nodes[ctl.n].ref>>))
            /\ log' = log
    /\ UNCHANGED <<genVars, g, input, stack, out, finalized, eofSkip>>

\* Id or Str referencing a Token: consume_name!(input)
ExecToken ==
    /\ ctl.m = "exec"
    /\ g.nodes[ctl.n].kind \in {"Id", "Str"} /\ g.nodes[ctl.n].elem = "Token"
    /\ postFinal' = Touch
    /\ IF Current = g.nodes[ctl.n].ref
       THEN /\ pos' = AdvancePos(pos)
            /\ ctl' = Ok
            /\ log' = log \o << Ev("consume", ctl.n, Current),
                                Ev("bind", ctl.n, Bound(g.nodes[ctl.n].ref)) >>
       ELSE /\ pos' = pos
            /\ ctl' = Err(SyntaxError(<<g.nodes[ctl.n].ref>>))
            /\ log' = log
    /\ UNCHANGED <<genVars, g, input, stack, out, finalized, eofSkip>>

\* Concat: opens the closure of the failure boundary if there is an error
\* operand, then runs the operands in order.
ExecConcat ==
    /\ At("Concat")
    /\ stack' = (IF g.nodes[ctl.n].error # 0
                 THEN Push(Frame("boundary", ctl.n, 0, NoErr)) ELSE stack)
                \o << Frame("concat", ctl.n, 0, NoErr) >>
    /\ ctl' = Ok
    /\ UNCHANGED <<genVars, g, input, pos, out, log, finalized, postFinal, eofSkip>>

\* Concat: the next operand; an ErrorHandler operand is a lookahead test.
ConcatNext ==
    /\ ctl.m = "ok"
    /\ Top.k = "concat"
    /\ Top.i < Len(g.nodes[Top.n].ops)
    /\ LET op == g.nodes[Top.n].ops[Top.i + 1] IN
       /\ stack' = [stack EXCEPT ![Len(stack)].i = Top.i + 1]
       /\ ctl' = IF g.nodes[op].kind = "ErrorHandler"
                 THEN Ctl("member", op, 0, NoErr) ELSE Exec(op)
       /\ log' = Append(log, Ev("op", Top.n, Top.i + 1))
    /\ UNCHANGED <<genVars, g, input, pos, out, finalized, postFinal, eofSkip>>

\* Concat: every operand succeeded.
ConcatDone ==
    /\ ctl.m = "ok"
    /\ Top.k = "concat"
    /\ Top.i = Len(g.nodes[Top.n].ops)
    /\ stack' = Pop
    /\ UNCHANGED <<genVars, g, input, pos, ctl, out, log, finalized, postFinal, eofSkip>>

\* Variant: the handler's code is written at the position of the operand.
ConcatErrorMemberInline ==
    /\ ctl.m = "member"
    /\ postFinal' = Touch
    /\ ctl' = Exec(ctl.n)
    /\ UNCHANGED <<genVars, g, input, pos, stack, out, log, finalized, eofSkip>>

\* Concat: the match emitted at the position of an ErrorHandler operand.
ConcatErrorMember ==
    /\ ctl.m = "member"
    /\ postFinal' = Touch
    /\ ctl' = IF Current \in Pattern(g.nodes[ctl.n].follow)
              THEN Ok ELSE Err(SyntaxError(ErrorList(g.nodes[ctl.n].follow)))
    /\ UNCHANGED <<genVars, g, input, pos, stack, out, log, finalized, eofSkip>>

\* Or: opens the closure if there is an error operand and dispatches on the
\* lookahead.
ExecOr ==
    /\ At("Or")
    /\ postFinal' = Touch
    /\ stack' = IF g.nodes[ctl.n].error # 0
                THEN Push(Frame("boundary", ctl.n, 0, NoErr)) ELSE stack
    /\ \E pv \in Guards(g.nodes[ctl.n].ops) :
         LET k == OrArm(g.nodes[ctl.n].ops, Current, pv) IN
         IF k # 0
         THEN /\ ctl' = Exec(g.nodes[ctl.n].ops[k])
              /\ log' = Append(log \o OrGuardEvs(g.nodes[ctl.n].ops, Current, pv, k, 1),
                               Ev("branch", ctl.n, k))
         ELSE /\ ctl' = Err(SyntaxError(ErrorList(g.nodes[ctl.n].predict)))
              /\ log' = log \o OrGuardEvs(g.nodes[ctl.n].ops, Current, pv, k, 1)
    /\ UNCHANGED <<genVars, g, input, pos, out, finalized, eofSkip>>

\* Star: one evaluation of the match inside the loop.
ExecStar ==
    /\ At("Star")
    /\ postFinal' = Touch
    /\ \E p \in BOOLEAN :
         /\ ~GetPredicate(g.nodes[ctl.n].ops[1]) => p
         /\ LET arm == StarArm(Current, p, g.nodes[g.nodes[ctl.n].ops[1]].first,
                               g.nodes[ctl.n].follow) IN
            /\ stack' = IF arm = "op" THEN Push(Frame("star", ctl.n, 0, NoErr)) ELSE stack
            /\ ctl' = CASE arm = "op" -> Exec(g.nodes[ctl.n].ops[1])
                        [] arm = "break" -> Ok
                        [] OTHER -> Err(SyntaxError(ErrorList(g.nodes[ctl.n].predict)))
            /\ log' = log \o GuardEv(g.nodes[ctl.n].ops[1], Current,
                                      g.nodes[g.nodes[ctl.n].ops[1]].first, p)
                           \o (CASE arm = "op" -> << Ev("iter", ctl.n, Current) >>
                                 [] arm = "break" -> << Ev("exit", ctl.n, Current) >>
                                 [] OTHER -> << >>)
    /\ UNCHANGED <<genVars, g, input, pos, out, finalized, eofSkip>>

\* Star: the operand succeeded, the loop goes round.
StarBack ==
    /\ ctl.m = "ok"
    /\ Top.k = "star"
    /\ ctl' = Exec(Top.n)
    /\ stack' = Pop
    /\ UNCHANGED <<genVars, g, input, pos, out, log, finalized, postFinal, eofSkip>>

\* Plus: let mut is_first = true; loop
ExecPlus ==
    /\ At("Plus")
    /\ ctl' = Ctl("plus", ctl.n, 1, NoErr)
    /\ UNCHANGED <<genVars, g, input, pos, stack, out, log, finalized, postFinal, eofSkip>>

\* Plus: one evaluation of the match inside the loop (ctl.i = 1: is_first).
PlusLoop ==
    /\ ctl.m = "plus"
    /\ postFinal' = Touch
    /\ \E p \in BOOLEAN :
         /\ ~GetPredicate(g.nodes[ctl.n].ops[1]) => p
         /\ LET arm == PlusArm(Current, ctl.i = 1, p, g.nodes[g.nodes[ctl.n].ops[1]].first,
                               g.nodes[ctl.n].follow) IN
            /\ stack' = IF arm = "op" THEN Push(Frame("plus", ctl.n, 0, NoErr)) ELSE stack
            /\ ctl' = CASE arm = "op" -> Exec(g.nodes[ctl.n].ops[1])
                        [] arm = "break" -> Ok
                        [] OTHER -> Err(SyntaxError(PlusError(arm, g.nodes[ctl.n].first,
                                                              g.nodes[ctl.n].follow)))
            /\ log' = log \o GuardEv(g.nodes[ctl.n].ops[1], Current,
                                      g.nodes[g.nodes[ctl.n].ops[1]].first, p)
                           \o (CASE arm = "op" -> << Ev("iter", ctl.n, Current) >>
                                 [] arm = "break" -> << Ev("exit", ctl.n, Current) >>
                                 [] OTHER -> << >>)
    /\ UNCHANGED <<genVars, g, input, pos, out, finalized, eofSkip>>

\* Plus: the operand succeeded; is_first = false and the loop goes round.
PlusBack ==
    /\ ctl.m = "ok"
    /\ Top.k = "plus"
    /\ ctl' = Ctl("plus", Top.n, 0, NoErr)
    /\ stack' = Pop
    /\ UNCHANGED <<genVars, g, input, pos, out, log, finalized, postFinal, eofSkip>>

\* Option: first(op) [if predicate] / follow / `_`.
ExecOption ==
    /\ At("Option")
    /\ postFinal' = Touch
    /\ \E p \in BOOLEAN :
         /\ ~GetPredicate(g.nodes[ctl.n].ops[1]) => p
         /\ LET arm == StarArm(Current, p, g.nodes[g.nodes[ctl.n].ops[1]].first,
                               g.nodes[ctl.n].follow) IN
            /\ ctl' = CASE arm = "op" -> Exec(g.nodes[ctl.n].ops[1])
                        [] arm = "break" -> Ok
                        [] OTHER -> Err(SyntaxError(ErrorList(g.nodes[ctl.n].predict)))
            /\ log' = log \o GuardEv(g.nodes[ctl.n].ops[1], Current,
                                      g.nodes[g.nodes[ctl.n].ops[1]].first, p)
    /\ UNCHANGED <<genVars, g, input, pos, stack, out, finalized, eofSkip>>

\* Paren: the operand is emitted in place.
ExecParen ==
    /\ At("Paren")
    /\ ctl' = Exec(g.nodes[ctl.n].ops[1])
    /\ UNCHANGED <<genVars, g, input, pos, stack, out, log, finalized, postFinal, eofSkip>>

\* Action: the user's code spliced in.
ExecAction ==
    /\ At("Action")
    /\ ctl' = Ok
    /\ log' = Append(log, Ev("action", ctl.n, g.nodes[ctl.n].ref))
    /\ UNCHANGED <<genVars, g, input, pos, stack, out, finalized, postFinal, eofSkip>>

\* Predicate inside a sequence: nothing is emitted for it.
ExecPredicate ==
    /\ At("Predicate")
    /\ ctl' = Ok
    /\ UNCHANGED <<genVars, g, input, pos, stack, out, log, finalized, postFinal, eofSkip>>

\* ErrorHandler as the body of the recovery arm: the handler's code.
ExecErrorHandler ==
    /\ At("ErrorHandler")
    /\ ctl' = Ok
    /\ log' = Append(log, Ev("handler", ctl.n, Current))
    /\ UNCHANGED <<genVars, g, input, pos, stack, out, finalized, postFinal, eofSkip>>

(***************************************************************************)
(* output_error_handler: the failure boundary of a Concat or Or.           *)
(***************************************************************************)
\* The closure returned Ok: or_else passes it on.
BoundaryOk ==
    /\ ctl.m = "ok"
    /\ Top.k = "boundary"
    /\ stack' = Pop
    /\ UNCHANGED <<genVars, g, input, pos, ctl, out, log, finalized, postFinal, eofSkip>>

\* Variant: the loop is entered without the test for EOF.
OrElseUntested ==
    /\ ctl.m = "err"
    /\ Top.k = "boundary"
    /\ postFinal' = Touch
    /\ stack' = Pop
    /\ ctl' = Ctl("resync", Top.n, 0, ctl.e)
    /\ log' = Append(log, Ev("caught", Top.n, Current))
    /\ UNCHANGED <<genVars, g, input, pos, out, finalized, eofSkip>>

\* The closure returned Err(error_code): the test for EOF before the loop.
OrElse ==
    /\ ctl.m = "err"
    /\ Top.k = "boundary"
    /\ postFinal' = Touch
    /\ stack' = Pop
    /\ ctl' = IF Current = EOF THEN Err(ctl.e) ELSE Ctl("resync", Top.n, 0, ctl.e)
    /\ log' = Append(log, Ev("caught", Top.n, Current))
    /\ UNCHANGED <<genVars, g, input, pos, out, finalized, eofSkip>>

\* One evaluation of the match inside the resync loop.
Resync ==
    /\ ctl.m = "resync"
    /\ postFinal' = Touch
    /\ LET error == g.nodes[ctl.n].error
           arm == ResyncArm(Current, g.nodes[error].follow, g.nodes[error].cancel) IN
       /\ stack' = IF arm = "recover" THEN Push(Frame("recover", ctl.n, 0, ctl.e)) ELSE stack
       /\ ctl' = CASE arm = "recover" -> Exec(error)
                   [] arm = "reraise" -> Err(ctl.e)
                   [] OTHER -> ctl
       /\ pos' = IF arm = "skip" THEN AdvancePos(pos) ELSE pos
       /\ eofSkip' = (eofSkip \/ (arm = "skip" /\ Current = EOF))
       /\ log' = CASE arm = "skip" /\ Current # EOF -> Append(log, Ev("skip", ctl.n, Current))
                   [] arm = "reraise" -> Append(log, Ev("reraise", ctl.n, Current))
                   [] OTHER -> log
    /\ UNCHANGED <<genVars, g, input, out, finalized>>

\* The handler's code ran: return Ok(()).
RecoverOk ==
    /\ ctl.m = "ok"
    /\ Top.k = "recover"
    /\ stack' = Pop
    /\ log' = Append(log, Ev("recovered", Top.n, Current))
    /\ UNCHANGED <<genVars, g, input, pos, ctl, out, finalized, postFinal, eofSkip>>

Next ==
    \/ Parse \/ EnterRule \/ CheckLimitFail \/ RuleReturn \/ EntryReturn \/ EntryFail
    \/ Propagate
    \/ ExecIdRule \/ ExecToken \/ ExecConcat \/ ConcatNext \/ ConcatDone
    \/ ConcatErrorMember \/ ExecOr \/ ExecStar \/ StarBack \/ ExecPlus \/ PlusLoop
    \/ PlusBack \/ ExecOption \/ ExecParen \/ ExecAction \/ ExecPredicate
    \/ ExecErrorHandler
    \/ BoundaryOk \/ OrElse \/ Resync \/ RecoverOk

Spec == Init /\ [][Next]_vars

(***************************************************************************)
(* The generator.  Source text is a sequence of atoms (identifiers, types  *)
(* and fixed phrases as one atom each, punctuation and blanks as their own *)
(* atoms).  One write_all call is one chunk: its template (t), the element *)
(* or regex it is written for (a), the names of the pattern_ and default_  *)
(* macros its text invokes (pats, errs) and the text the templates splice  *)
(* in (text).  Indentation is left out.                                    *)
(***************************************************************************)
ChunkArgs(t, a, pats, errs, text, args) ==
    [t |-> t, a |-> a, pats |-> pats, errs |-> errs, text |-> text, args |-> args]
Chunk(t, a, pats, errs, text) == ChunkArgs(t, a, pats, errs, text, << >>)

Reverse(s) == [i \in 1..Len(s) |-> s[Len(s) + 1 - i]]

\* str::split: the pieces of s between the occurrences of the atom c.
RECURSIVE Split(_, _)
Split(s, c) ==
    IF \A i \in 1..Len(s) : s[i] # c THEN << s >>
    ELSE LET i == Min({ j \in 1..Len(s) : s[j] = c }) IN
         << SubSeq(s, 1, i - 1) >> \o Split(SubSeq(s, i + 1, Len(s)), c)

\* str::rsplit: the same pieces, last one first.
RSplit(s, c) == Reverse(Split(s, c))

\* [&str]::join
RECURSIVE Join(_, _)
Join(pieces, sep) ==
    IF pieces = << >> THEN << >>
    ELSE IF Len(pieces) = 1 THEN pieces[1]
    ELSE pieces[1] \o sep \o Join(Tail(pieces), sep)

\* str::trim
RECURSIVE Trim(_)
Trim(s) ==
    IF s = << >> THEN s
    ELSE IF s[1] = " " THEN Trim(Tail(s))
    ELSE IF s[Len(s)] = " " THEN Trim(SubSeq(s, 1, Len(s) - 1))
    ELSE s

\* str::starts_with
StartsWith(s, c) == Len(s) > 0 /\ s[1] = c

\* par_to_arg: rsplit(':').skip(1) .rev() .map(rsplit(',').next()) .join(",")
ParToArg(pars) ==
    LET kept == Reverse(Tail(RSplit(pars, ":")))
    IN  Join([i \in 1..Len(kept) |-> RSplit(kept[i], ",")[1]], << "," >>)

\* Display of a Symbol: the interned name; the end-of-input symbol prints EOF.
SymName(s) == IF s = EOF THEN << "EOF" >> ELSE g.names[s]

\* Variant: a set that iterates in an order that differs from run to run.
RunOrder(S) == IF prev.ret = "none" THEN Ordered(S) ELSE Reverse(Ordered(S))

\* Iteration of a BTreeSet<Symbol> by the set renderer.
SetOrder(S) == Ordered(S)

\* Generator::pattern, as text: the pattern_ macros joined by `|`.
GenPattern(S) ==
    IF S # {} THEN [i \in 1..Cardinality(S) |-> << "pattern_" >> \o SymName(SetOrder(S)[i])]
    ELSE << << "pattern_", "EOF" >> >>

\* Generator::error, as text: the default_ macros joined by `,`.
GenError(S) ==
    IF S # {} THEN [i \in 1..Cardinality(S) |-> << "default_" >> \o SymName(SetOrder(S)[i])]
    ELSE << << "default_", "EOF" >> >>

\* output_parser: common_pars and common_args.
CommonPars == IF g.parameters.present THEN << ",", " " >> \o Trim(g.parameters.code) ELSE << >>
CommonArgs ==
    IF g.parameters.present THEN << ",", " " >> \o ParToArg(Trim(g.parameters.code)) ELSE << >>

\* The `, pars` of a signature.
ParsText(pars) == IF pars = << >> THEN << >> ELSE << ",", " " >> \o pars

\* output_regex, Id referencing a Rule: the argument text of the call.
CallArgs(pars) ==
    LET args == ParToArg(pars)
    IN  << "depth + 1", ",", " ", "input" >> \o CommonArgs
        \o (IF args = << >> THEN << >>
            ELSE IF CommonArgs = << >> THEN args
            ELSE << ",", " " >> \o args)

\* output_element: the parameter text of a routine's signature.
Signature(pars) ==
    << "depth", ":", " ", "u16", ",", " ", "input", ":", " ", "&mut Input" >>
    \o CommonPars \o ParsText(pars)

\* output_parser: the argument text of the call of start in Parser::parse.
StartArgs == << "0", ",", " ", "input" >> \o CommonArgs

\* get_predicate, as text: the guard spliced after the pattern of an arm.
GuardText(n) == IF GetPredicate(n) THEN << " if ", "predicate" >> ELSE << >>

\* output_regex, Option: whether the operand gives the match a name to bind.
OptionNamed(n) == g.nodes[g.nodes[n].ops[1]].kind \in {"Id", "Str"}

\* output_regex and output_error_handler: the writes made for regex n, in order.
RECURSIVE EmitRegex(_), EmitOps(_, _), EmitArms(_, _), EmitErrorHandler(_)
EmitRegex(n) ==
    LET r == g.nodes[n]
        op == r.ops[1]
        open == IF r.error # 0 THEN << Chunk("closure", n, << >>, << >>, << >>) >> ELSE << >>
        handler == IF r.error # 0 THEN EmitErrorHandler(r.error) ELSE << >>
    IN
    CASE r.kind = "Id" /\ r.elem = "Rule" ->
           << ChunkArgs("call", r.ref, << >>, << >>, << >>, CallArgs(g.rules[r.ref].pars)) >>
      [] r.kind \in {"Id", "Str"} /\ r.elem = "Token" ->
           << Chunk("consume", r.ref, << >>, << >>, << "consume_" >> \o SymName(r.ref)) >>
      [] r.kind = "Concat" -> open \o EmitOps(r.ops, 1) \o handler
      [] r.kind = "Or" ->
           open \o << Chunk("match", n, << >>, << >>, << >>) >>
           \o EmitArms(n, 1)
           \o << Chunk("or_default", n, << >>, GenError(r.predict), << >>) >>
           \o handler
      [] r.kind = "Star" ->
           << Chunk("star", n, GenPattern(g.nodes[op].first), << >>, GuardText(op)) >>
           \o EmitRegex(op)
           \o << Chunk("star_end", n, GenPattern(r.follow), GenError(r.predict), << >>) >>
      [] r.kind = "Plus" ->
           << Chunk("plus", n, GenPattern(g.nodes[op].first), << >>, GuardText(op)) >>
           \o EmitRegex(op)
           \o << Chunk("plus_end", n, GenPattern(r.follow),
                       GenError(r.first) \o GenError(r.first) \o GenError(r.follow), << >>) >>
      [] r.kind = "Option" ->
           << Chunk("option", n, GenPattern(g.nodes[op].first), << >>, GuardText(op)) >>
           \o EmitRegex(op)
           \o (IF OptionNamed(n) THEN << Chunk("some", n, << >>, << >>, << >>) >> ELSE << >>)
           \o << Chunk("option_end", n, GenPattern(r.follow), GenError(r.predict), << >>) >>
      [] r.kind = "Paren" -> EmitRegex(op)
      [] r.kind = "Action" -> << Chunk("action", r.ref, << >>, << >>, << >>) >>
      [] r.kind = "ErrorHandler" -> << Chunk("handler", r.ref, << >>, << >>, << >>) >>
      [] OTHER -> << >>

\* Concat: the operands from the i-th on; an ErrorHandler operand is written
\* as a match on its follow set.
EmitOps(ops, i) ==
    IF i > Len(ops) THEN << >>
    ELSE (IF g.nodes[ops[i]].kind = "ErrorHandler"
          THEN << Chunk("member", ops[i], GenPattern(g.nodes[ops[i]].follow),
                        GenError(g.nodes[ops[i]].follow), << >>) >>
          ELSE EmitRegex(ops[i]))
         \o EmitOps(ops, i + 1)

\* Or: the arms of the branches from the i-th on; ErrorHandler members get none.
EmitArms(n, i) ==
    LET ops == g.nodes[n].ops IN
    IF i > Len(ops) THEN << >>
    ELSE (IF g.nodes[ops[i]].kind = "ErrorHandler" THEN << >>
          ELSE << Chunk("arm", ops[i], GenPattern(g.nodes[ops[i]].predict), << >>,
                        GuardText(ops[i])) >>
               \o EmitRegex(ops[i])
               \o (IF g.nodes[n].error # 0
                   THEN << Chunk("arm_ok", ops[i], << >>, << >>, << >>) >> ELSE << >>)
               \o << Chunk("arm_end", ops[i], << >>, << >>, << >>) >>)
         \o EmitArms(n, i + 1)

\* output_error_handler: or_else with the recovery arm, the cancel arm if
\* cancel is not empty, and the `_` arm.
EmitErrorHandler(error) ==
    << Chunk("or_else", error, GenPattern(g.nodes[error].follow), << >>, << >>) >>
    \o EmitRegex(error)
    \o << Chunk("recover_end", error, << >>, << >>, << >>) >>
    \o (IF g.nodes[error].cancel # {}
        THEN << Chunk("cancel", error, GenPattern(g.nodes[error].cancel), << >>, << >>) >>
        ELSE << >>)
    \o << Chunk("skip", error, << >>, << >>, << >>) >>

\* Variant: the used flag is not consulted.
IsUsedAlways(r) == TRUE

\* output_element: element.attr.used.get()
IsUsed(r) == g.rules[r].used

\* output_element: the writes made for the i-th element of the module.
EmitElement(i) ==
    LET el == g.elements[i]
        r == el.ref
        action == IF g.rules[r].action
                  THEN << Chunk("action", 0, << >>, << >>, << >>) >> ELSE << >>
    IN
    IF el.kind \notin {"Start", "Rule"} THEN << >>
    ELSE IF ~IsUsed(r) THEN << >>
    ELSE IF el.kind = "Start"
    THEN << Chunk("fn", r, << >>, << >>, Signature(g.rules[r].pars)) >>
         \o action \o EmitRegex(g.rules[r].regex)
         \o << Chunk("fn_end", r, << >>, << >>, << >>) >>
    ELSE << Chunk("fn", r, << >>, << >>, Signature(g.rules[r].pars)),
            Chunk("check_limit", r, << >>, << >>, << >>) >>
         \o action \o EmitRegex(g.rules[r].regex)
         \o << Chunk("fn_end", r, << >>, << >>, << >>) >>

(***************************************************************************)
(* Modules given to the generator.  Over the parser's view of a module     *)
(* they carry the element list in declaration order, the used flag, the    *)
(* parameter text and the rule action of every Start and Rule, the name    *)
(* and payload type of every token, the shared parameters, the preamble    *)
(* and the version string.                                                 *)
(***************************************************************************)
Element(kind, ref) == [kind |-> kind, ref |-> ref]

GenRule(start, regex, used, pars, action) ==
    [start |-> start, regex |-> regex, used |-> used, pars |-> pars, action |-> action]

\* token X; token B = 'b'; start(parsS): A ('b')* [Y] #1 !1;  token Y{i64};
\* A(parsA): ?1 X | (Z+);  token Z;  token G or _G;  C: [G];  #1 {..}
\* D(d: D): X D | !2;       with follow(!1) = {EOF}, follow(!2) = {}, cancel(!2) = {Z}
GenModule(under, usedS, usedC, usedD, shared, parsS, parsA) ==
    [ nodes |-> << Node("Concat", "None", 0, <<2, 3, 6, 8, 9>>, 9, {X, Z}, {EOF}, {X, Z}, {}),
                   IdRule(2, {X, Z}),
                   Node("Star", "None", 0, <<4>>, 0, {B}, {Y, EOF}, {B, Y, EOF}, {}),
                   Node("Paren", "None", 0, <<5>>, 0, {B}, {B, Y, EOF}, {B}, {}),
                   StrToken(B),
                   Node("Option", "None", 0, <<7>>, 0, {Y}, {EOF}, {Y, EOF}, {}),
                   IdToken(Y),
                   ActionNode(1),
                   ErrorHandlerNode(1, {EOF}, {}),
                   Node("Or", "None", 0, <<11, 14>>, 0, {X, Z}, {B, Y, EOF}, {X, Z}, {}),
                   Node("Concat", "None", 0, <<12, 13>>, 0, {X}, {B, Y, EOF}, {X}, {}),
                   PredicateNode(1),
                   IdToken(X),
                   Node("Paren", "None", 0, <<15>>, 0, {Z}, {B, Y, EOF}, {Z}, {}),
                   Node("Plus", "None", 0, <<16>>, 0, {Z}, {B, Y, EOF}, {Z}, {}),
                   IdToken(Z),
                   Node("Option", "None", 0, <<23>>, 0, {G}, {EOF}, {G, EOF}, {}),
                   Node("Or", "None", 0, <<19, 22>>, 22, {X}, {EOF}, {X}, {}),
                   Node("Concat", "None", 0, <<20, 21>>, 0, {X}, {EOF}, {X}, {}),
                   IdToken(X),
                   IdRule(4, {X}),
                   ErrorHandlerNode(2, {}, {Z}),
                   IdToken(G) >>,
      rules |-> << GenRule(TRUE, 1, usedS, parsS, FALSE),
                   GenRule(FALSE, 10, TRUE, parsA, TRUE),
                   GenRule(FALSE, 17, usedC, << >>, FALSE),
                   GenRule(FALSE, 18, usedD, << "d", ":", " ", "D" >>, FALSE) >>,
      elements |-> << Element("Token", X), Element("Token", B), Element("Start", 1),
                      Element("Token", Y), Element("Rule", 2), Element("Token", Z),
                      Element("Token", G), Element("Rule", 3), Element("Action", 1),
                      Element("Rule", 4) >>,
      names |-> << << "X" >>, << "B" >>, << "Y" >>, << "Z" >>,
                   IF under THEN << "_", "G" >> ELSE << "G" >> >>,
      ty |-> [s \in 1..5 |-> TyOf(s)],
      parameters |-> [present |-> shared, code |-> << " ", "p", ":", " ", "P", " " >>],
      preamble |-> TRUE,
      version |-> "0.4.1",
      hasLimit |-> TRUE, depth |-> 2, hasError |-> TRUE ]

\* Parameter texts of start and of the rule A.
StartPars == { << >>, << "s", ":", " ", "S" >> }
RulePars == { << >>, << "a", ":", " ", "T" >>,
              << "a", ":", " ", "T", ",", " ", "b", ":", " ", "U" >> }

GenModules ==
    { GenModule(under, usedS, usedC, usedD, shared, parsS, parsA) :
        under \in BOOLEAN, usedS \in BOOLEAN, usedC \in BOOLEAN, usedD \in BOOLEAN,
        shared \in BOOLEAN, parsS \in StartPars, parsA \in RulePars }

(***************************************************************************)
(* The sections of parser.rs, as the writes each output_ function makes.   *)
(***************************************************************************)
TokenElements == SelectSeq(g.elements, LAMBDA el : el.kind = "Token")

\* The tokens for which output_defaults and output_consumes write a macro.
NamedTokens == SelectSeq(TokenElements, LAMBDA el : ~StartsWith(SymName(el.ref), "_"))

Define(prefix, s) ==
    Chunk(IF g.ty[s] = << >> THEN "define" ELSE "define_typed", s, << >>, << >>,
          << prefix >> \o SymName(s))

Header == << Chunk("header", 0, << >>, << >>, << g.version >>) >>

Preamble ==
    (IF g.preamble
     THEN << Chunk("preamble", 0, << >>, << >>, << >>),
             Chunk("preamble_line", 1, << >>, << >>, << >>),
             Chunk("newline", 1, << >>, << >>, << >>) >>
     ELSE << >>)
    \o << Chunk("blank", 0, << >>, << >>, << >>) >>

Tokens ==
    << Chunk("enum", 0, << >>, << >>, << "EOF" >>) >>
    \o [i \in 1..Len(TokenElements) |->
          Chunk("variant", TokenElements[i].ref, << >>, << >>,
                SymName(TokenElements[i].ref) \o g.ty[TokenElements[i].ref])]
    \o << Chunk("enum_end", 0, << >>, << >>, << >>) >>

Patterns ==
    << Chunk("define", EOF, << >>, << >>, << "pattern_", "EOF" >>) >>
    \o [i \in 1..Len(TokenElements) |-> Define("pattern_", TokenElements[i].ref)]
    \o << Chunk("blank", 0, << >>, << >>, << >>) >>

Defaults ==
    << Chunk("define", EOF, << >>, << >>, << "default_", "EOF" >>) >>
    \o [i \in 1..Len(NamedTokens) |-> Define("default_", NamedTokens[i].ref)]
    \o << Chunk("blank", 0, << >>, << >>, << >>) >>

ErrorMacro ==
    << Chunk(IF g.hasError THEN "define_err_code" ELSE "define_err_vec", 0, << >>, << >>,
             << "err" >>) >>

CheckLimitMacro ==
    << Chunk(IF g.hasError THEN "define_limit_err" ELSE "define_limit_panic", Limit,
             << >>, << >>, << "check_limit" >>) >>

Consumes ==
    [i \in 1..Len(NamedTokens) |->
       [Define("consume_", NamedTokens[i].ref)
          EXCEPT !.errs = << << "default_" >> \o SymName(NamedTokens[i].ref) >>]]
    \o << Chunk("blank", 0, << >>, << >>, << >>) >>

Display ==
    << Chunk("display", 0, << << "pattern_", "EOF" >> >>, << >>, << >>) >>
    \o [i \in 1..Len(TokenElements) |->
          Chunk("display_arm", TokenElements[i].ref,
                << << "pattern_" >> \o SymName(TokenElements[i].ref) >>, << >>, << >>)]
    \o << Chunk("display_end", 0, << >>, << >>, << >>) >>

\* output_parser: start_pars, taken from the Start elements of the module.
RECURSIVE StartParsFrom(_, _)
StartParsFrom(i, acc) ==
    IF i > Len(g.elements) THEN acc
    ELSE StartParsFrom(i + 1,
            IF g.elements[i].kind = "Start" /\ g.rules[g.elements[i].ref].pars # << >>
            THEN << ",", " " >> \o g.rules[g.elements[i].ref].pars ELSE acc)

\* output_parser: struct Parser and Parser::parse.
ParseFn ==
    << ChunkArgs("parse", StartRule, << >>, << << "default_", "EOF" >> >>,
                 << "input", ":", " ", "&mut Input" >> \o CommonPars \o StartParsFrom(1, << >>),
                 StartArgs) >>

ImplEnd == << Chunk("impl_end", 0, << >>, << >>, << >>) >>

(***************************************************************************)
(* create_parser.  Every write_all may fail; `?` returns the failure.      *)
(***************************************************************************)
\* Variant: the result of a write is dropped and writing goes on.
WriteAllUnchecked(cs, f) ==
    [file |-> file \o SubSeq(cs, 1, IF f = 0 THEN Len(cs) ELSE f - 1)
                   \o SubSeq(cs, IF f = 0 THEN Len(cs) + 1 ELSE f + 1, Len(cs)),
     attempts |-> attempts + Len(cs),
     failed |-> FALSE]

\* The writes cs made one after the other with `?`; the f-th fails (0: none).
WriteAll(cs, f) ==
    [file |-> file \o SubSeq(cs, 1, IF f = 0 THEN Len(cs) ELSE f - 1),
     attempts |-> attempts + (IF f = 0 THEN Len(cs) ELSE f),
     failed |-> f # 0]

\* One output_ function of create_parser: its writes, then the next one.
Output(at, cs, next) ==
    /\ gpc.at = at
    /\ \E f \in 0..Len(cs) :
         LET w == WriteAll(cs, f) IN
         /\ file' = w.file
         /\ attempts' = w.attempts
         /\ gpc' = IF w.failed THEN GenAt("done", 0) ELSE next
         /\ ret' = IF w.failed THEN "err" ELSE IF next.at = "done" THEN "ok" ELSE ret
    /\ UNCHANGED <<g, input, pos, ctl, stack, out, log, finalized, postFinal, eofSkip, prev>>

\* File::create(path.join("parser.rs"))?
CreateFile ==
    /\ gpc.at = "create"
    /\ \/ gpc' = GenAt("header", 0) /\ ret' = ret
       \/ gpc' = GenAt("done", 0) /\ ret' = "err"
    /\ UNCHANGED <<g, input, pos, ctl, stack, out, log, finalized, postFinal, eofSkip,
                   file, attempts, prev>>

WriteHeader == Output("header", Header, GenAt("preamble", 0))
OutputPreamble == Output("preamble", Preamble, GenAt("tokens", 0))
OutputTokens == Output("tokens", Tokens, GenAt("patterns", 0))
OutputPatterns == Output("patterns", Patterns, GenAt("defaults", 0))
OutputDefaults == Output("defaults", Defaults, GenAt("error", 0))
OutputError == Output("error", ErrorMacro, GenAt("check_limit", 0))
OutputCheckLimit == Output("check_limit", CheckLimitMacro, GenAt("consumes", 0))
OutputConsumes == Output("consumes", Consumes, GenAt("display", 0))
OutputDisplay == Output("display", Display, GenAt("parser", 0))

\* output_parser up to the loop over the elements.
OutputParser == Output("parser", ParseFn, GenAt("element", 1))

\* output_parser: output_element for the element in turn.
OutputElement ==
    Output("element", EmitElement(gpc.i),
           IF gpc.i < Len(g.elements) THEN GenAt("element", gpc.i + 1) ELSE GenAt("close", 0))

\* output_parser: the last write, whose result create_parser returns.
CloseParser == Output("close", ImplEnd, GenAt("done", 0))

\* The tool is run once more on the same module after a run that succeeded.
Rerun ==
    /\ gpc.at = "done"
    /\ ret = "ok"
    /\ prev = NoRun
    /\ prev' = [ret |-> ret, file |-> file]
    /\ gpc' = GenAt("create", 0)
    /\ file' = << >>
    /\ attempts' = 0
    /\ ret' = "running"
    /\ UNCHANGED <<g, input, pos, ctl, stack, out, log, finalized, postFinal, eofSkip>>

GenInit ==
    /\ g \in GenModules
    /\ input = << >>
    /\ pos = 0
    /\ ctl = Ctl("init", 0, 0, NoErr)
    /\ stack = << >>
    /\ out = [k |-> "running", exp |-> << >>]
    /\ log = << >>
    /\ finalized = 0
    /\ postFinal = FALSE
    /\ eofSkip = FALSE
    /\ gpc = GenAt("create", 0)
    /\ file = << >>
    /\ attempts = 0
    /\ ret = "running"
    /\ prev = NoRun

GenNext ==
    \/ CreateFile \/ WriteHeader \/ OutputPreamble \/ OutputTokens \/ OutputPatterns
    \/ OutputDefaults \/ OutputError \/ OutputCheckLimit \/ OutputConsumes
    \/ OutputDisplay \/ OutputParser \/ OutputElement \/ CloseParser \/ Rerun

GenSpec == GenInit /\ [][GenNext]_vars

(***************************************************************************)
(* Properties.                                                             *)
(***************************************************************************)
Range(s) == { s[i] : i \in 1..Len(s) }
Events(ev) == { i \in 1..Len(log) : log[i].ev = ev }
ErrorOf(n) == g.nodes[g.nodes[n].error]

\* C1: in the recovery code of a boundary, an end-of-input lookahead, on
\* entry or after any number of skipped tokens, re-raises the original
\* failure at once and is never skipped.
C1_EofReraisesAtOnce ==
    [][ /\ (ctl.m = "err" /\ Top.k = "boundary" /\ Current = EOF)
           => (ctl' = Err(ctl.e) /\ pos' = pos)
        /\ (ctl.m = "resync" /\ Current = EOF)
           => (ctl' = Err(ctl.e) /\ pos' = pos /\ ~eofSkip') ]_vars

\* C2: a ParserError never enters a resync loop, never has a handler run for
\* it, and is what the entry routine returns once a depth guard has tripped.
C2_ParserErrorNotRecovered ==
    /\ ctl.m = "resync" => ctl.e.k # "parser"
    /\ \A i \in 1..Len(stack) : stack[i].k = "recover" => stack[i].e.k # "parser"
    /\ (ctl.m = "done" /\ g.hasError /\ Events("limit") # {}) => out = ParserError

\* C3: finalize() is called at most once in a run, only by a depth guard
\* that tripped, and no current() or advance() follows it.
C3_FinalizeOnceThenSilent ==
    /\ finalized <= 1
    /\ finalized <= Cardinality(Events("limit"))
    /\ ~postFinal

\* C4: the resync loop skips one token at a time, and at a lookahead that is
\* in follow(error) it runs the handler body, consumes nothing and makes the
\* construct succeed; start: X B Y !1 with follow {Y}, cancel {Z} recovers
\* on [X, G, G, Y] after skipping exactly the two G.
C4_ResyncRecoversOnFollow ==
    /\ [][ /\ ctl.m = "resync" => pos' \in {pos, pos + 1}
           /\ (ctl.m = "resync" /\ Current \in ErrorOf(ctl.n).follow)
              => /\ ctl' = Exec(g.nodes[ctl.n].error)
                 /\ stack' = Append(stack, Frame("recover", ctl.n, 0, ctl.e))
                 /\ pos' = pos
           /\ (ctl.m = "exec" /\ Len(stack) > 0 /\ Top.k = "recover")
              => /\ ctl' = Ok
                 /\ log' = Append(log, Ev("handler", ctl.n, Current))
                 /\ UNCHANGED <<stack, pos>>
           /\ (ctl.m = "ok" /\ Len(stack) > 0 /\ Top.k = "recover")
              => /\ ctl' = Ok
                 /\ stack' = SubSeq(stack, 1, Len(stack) - 1)
                 /\ pos' = pos ]_vars
    /\ [] ( (g = ResyncGrammar({Y}, {Z}) /\ input = <<X, G, G, Y>> /\ ctl.m = "done")
            => /\ [ i \in Events("skip") |-> log[i].b ] \in [ Events("skip") -> {G} ]
               /\ Cardinality(Events("skip")) = 2
               /\ Cardinality(Events("handler")) = 1
               /\ Cardinality(Events("recovered")) = 1
               /\ Events("reraise") = {}
               /\ pos = 4 )

C4_Witness ==
    /\ g = ResyncGrammar({Y}, {Z})
    /\ input = <<X, G, G, Y>>
    /\ ctl.m = "done"
    /\ Cardinality(Events("skip")) = 2
    /\ Events("recovered") # {}

\* C5: in the resync loop a lookahead that is in a non-empty cancel(error)
\* and not in follow(error) re-raises the original failure unchanged and is
\* not consumed; with follow {Y}, cancel {Z} the input [X, G, Z] fails with
\* the original expected set and leaves Z as the lookahead.
C5_CancelReraises ==
    /\ [][ (/\ ctl.m = "resync"
            /\ ErrorOf(ctl.n).cancel # {}
            /\ Current \in ErrorOf(ctl.n).cancel
            /\ Current \notin ErrorOf(ctl.n).follow)
           => (ctl' = Err(ctl.e) /\ pos' = pos) ]_vars
    /\ [] ( (g = ResyncGrammar({Y}, {Z}) /\ input = <<X, G, Z>> /\ ctl.m = "done")
            => (out = SyntaxError(<<B>>) /\ pos = 3) )

\* The members of an Or that take part in dispatch, and the union of their
\* predict sets.
Branches(n) == { i \in 1..Len(g.nodes[n].ops) : g.nodes[g.nodes[n].ops[i]].kind # "ErrorHandler" }
PredictOf(n, i) == g.nodes[g.nodes[n].ops[i]].predict
PredictUnion(n) == UNION { PredictOf(n, i) : i \in Branches(n) }

\* C6 (as stated): at an Or, a lookahead in the union of the branches'
\* predict sets enters exactly one branch, whose predict set contains it; a
\* lookahead outside the union enters no branch and fails with the union as
\* expected set.
C6_OrDispatchTotal ==
    [][ (ctl.m = "exec" /\ g.nodes[ctl.n].kind = "Or")
        => IF Current \in PredictUnion(ctl.n)
           THEN \E k \in Branches(ctl.n) :
                   /\ ctl' = Exec(g.nodes[ctl.n].ops[k])
                   /\ Current \in PredictOf(ctl.n, k)
           ELSE /\ ctl'.m = "err"
                /\ ctl'.e.k = "syntax"
                /\ Range(ctl'.e.exp) = PredictUnion(ctl.n) ]_vars

\* C6 (amended): a branch accepts the lookahead when the rendering of its
\* predict set (the set, or end-of-input for the empty set) matches it and
\* its predicate, if it has one, evaluates to true.  If some dispatchable
\* branch accepts, exactly the first accepting branch is entered; otherwise
\* no branch is entered and the Or fails with the rendering of predict(Or).
C6_OrDispatchFirstAccepting ==
    [][ (ctl.m = "exec" /\ g.nodes[ctl.n].kind = "Or")
        => LET new == Range(SubSeq(log', Len(log) + 1, Len(log')))
               matching == { i \in Branches(ctl.n) :
                               Current \in (IF PredictOf(ctl.n, i) = {} THEN {EOF}
                                            ELSE PredictOf(ctl.n, i)) }
               refused == { i \in matching : Ev("guard", g.nodes[ctl.n].ops[i], 0) \in new }
               accepting == matching \ refused
               union == g.nodes[ctl.n].predict
           IN  IF accepting # {}
               THEN /\ ctl' = Exec(g.nodes[ctl.n].ops[Min(accepting)])
                    /\ Ev("branch", ctl.n, Min(accepting)) \in new
                    /\ Cardinality({ e \in new : e.ev = "branch" }) = 1
               ELSE /\ ctl' = Err(SyntaxError(IF union = {} THEN <<EOF>> ELSE Ordered(union)))
                    /\ { e \in new : e.ev = "branch" } = {} ]_vars

C6_Witness ==
    /\ \E i \in 1..Len(log) : log[i] = Ev("guard", 2, 0)
    /\ \E i \in 1..Len(log) : log[i] = Ev("branch", 1, 2)
    /\ g.nodes[1].kind = "Or"
    /\ g.nodes[1].error # 0
    /\ g.nodes[2].predict = {X, Y}
    /\ input = <<Y>>

FirstOfOp(n) == g.nodes[g.nodes[n].ops[1]].first

\* C7 (as stated): a Plus exits normally only after op has run once; on the
\* first iteration a lookahead outside first(op) fails with expected set
\* first(op); on a later iteration a lookahead outside first(op) and outside
\* follow fails with expected set first(op) \cup follow.  With first {B},
\* follow {Y}: [] fails with {B}, [B, Z] fails with {B, Y}.
C7_PlusFirstVsLater ==
    /\ [][ /\ (ctl.m = "plus" /\ ctl'.m = "ok") => ctl.i = 0
           /\ (ctl.m = "plus" /\ ctl.i = 1 /\ Current \notin FirstOfOp(ctl.n))
              => /\ ctl'.m = "err"
                 /\ ctl'.e.k = "syntax"
                 /\ Range(ctl'.e.exp) = FirstOfOp(ctl.n)
           /\ (/\ ctl.m = "plus" /\ ctl.i = 0
               /\ Current \notin FirstOfOp(ctl.n)
               /\ Current \notin g.nodes[ctl.n].follow)
              => /\ ctl'.m = "err"
                 /\ ctl'.e.k = "syntax"
                 /\ Range(ctl'.e.exp) = FirstOfOp(ctl.n) \cup g.nodes[ctl.n].follow ]_vars
    /\ [] ( (g = PlusGrammar({B}, {Y}, FALSE) /\ ctl.m = "done")
            => /\ input = << >> => (out.k = "syntax" /\ Range(out.exp) = {B})
               /\ input = <<B, Z>> => (out.k = "syntax" /\ Range(out.exp) = {B, Y}) )

\* C7 (amended): as stated, with follow read through its rendering: the
\* exit arm and the second half of the later-iteration list are follow, or
\* end-of-input when follow is the empty set; the later-iteration list is
\* the list of first(op) followed by that of follow.
C7_PlusFirstVsLaterRendered ==
    /\ [][ /\ (ctl.m = "plus" /\ ctl'.m = "ok") => ctl.i = 0
           /\ (ctl.m = "plus" /\ ctl.i = 1 /\ Current \notin FirstOfOp(ctl.n))
              => ctl' = Err(SyntaxError(Ordered(FirstOfOp(ctl.n))))
           /\ (/\ ctl.m = "plus" /\ ctl.i = 0
               /\ Current \notin FirstOfOp(ctl.n)
               /\ Current \notin (IF g.nodes[ctl.n].follow = {} THEN {EOF}
                                  ELSE g.nodes[ctl.n].follow))
              => ctl' = Err(SyntaxError(
                     Ordered(FirstOfOp(ctl.n))
                     \o (IF g.nodes[ctl.n].follow = {} THEN <<EOF>>
                         ELSE Ordered(g.nodes[ctl.n].follow)))) ]_vars
    /\ [] ( (g = PlusGrammar({B}, {Y}, FALSE) /\ ctl.m = "done")
            => /\ input = << >> => out = SyntaxError(<<B>>)
               /\ input = <<B, Z>> => out = SyntaxError(<<B, Y>>) )

C7_Witness ==
    /\ g = PlusGrammar({B}, {Y}, FALSE)
    /\ input = <<B, Z>>
    /\ ctl.m = "done"
    /\ out = SyntaxError(<<B, Y>>)
    /\ Cardinality(Events("iter")) = 1

RuleFrames == SelectSeq(stack, LAMBDA f : f.k = "rule")
DeclaredLimit == IF g.hasLimit THEN g.depth ELSE 128

\* C8: Start runs at depth 0 and every rule invocation at the depth of its
\* caller plus one; a non-start rule fails fatally, before running any of
\* its body or touching the stream, exactly when its depth is greater than
\* the declared limit (128 if none is declared); with limit 2 the guard
\* trips at depth 3 and at no smaller depth.
C8_DepthGuard ==
    /\ [] ( /\ \A j \in 1..Len(RuleFrames) : RuleFrames[j].i = j - 1
            /\ ctl.m = "call" => ctl.i = Len(RuleFrames)
            /\ (g.hasLimit /\ g.depth = 2)
               => /\ \A i \in Events("limit") : log[i].b = 3
                  /\ \A i \in Events("enter") : log[i].b <= 2 )
    /\ [][ /\ ctl.m = "init" => (ctl'.m = "call" /\ g.rules[ctl'.n].start /\ ctl'.i = 0)
           /\ (ctl.m = "call" /\ ~g.rules[ctl.n].start /\ ctl.i > DeclaredLimit)
              => /\ IF g.hasError THEN ctl' = Err(ParserError) ELSE out'.k = "panic"
                 /\ UNCHANGED <<pos, stack, postFinal>>
                 /\ Events("enter")' = Events("enter")
           /\ (ctl.m = "call" /\ ~g.rules[ctl.n].start /\ ctl.i <= DeclaredLimit)
              => /\ ctl' = Exec(g.rules[ctl.n].regex)
                 /\ stack' = Append(stack, Frame("rule", ctl.n, ctl.i, NoErr))
                 /\ finalized' = finalized ]_vars

C8_Witness ==
    /\ g.hasLimit /\ g.depth = 2
    /\ \E i \in Events("limit") : log[i].b = 3
    /\ \E i \in Events("enter") : log[i].a = 2 /\ log[i].b = 1
    /\ \E i \in Events("enter") : log[i].a = 2 /\ log[i].b = 2

\* C9: the entry routine advances once to the first token and calls Start
\* at depth 0; it returns Ok only if Start returned Ok and the lookahead is
\* then end-of-input, fails with expected set {end-of-input} if a token
\* remains, and returns a failure of Start unchanged.
C9_EntryCompleteness ==
    /\ [] ( /\ ctl.m # "done" => out.k = "running"
            /\ out.k = "ok" => (pos = Len(input) + 1 /\ stack = << >>)
            /\ ctl.m # "init" => pos >= 1 )
    /\ [][ /\ ctl.m = "init"
              => (pos' = 1 /\ ctl'.m = "call" /\ g.rules[ctl'.n].start /\ Len(stack') = 1)
           /\ (ctl.m = "ok" /\ Len(stack) = 1)
              => /\ ctl'.m = "done"
                 /\ pos' = pos
                 /\ out' = IF pos <= Len(input) THEN SyntaxError(<<EOF>>)
                           ELSE [k |-> "ok", exp |-> <<>>]
           /\ (ctl.m = "err" /\ Len(stack) = 1)
              => (ctl'.m = "done" /\ out' = ctl.e /\ pos' = pos)
           /\ (ctl.m # "done" /\ ctl'.m = "done" /\ out'.k # "panic") => Len(stack) = 1 ]_vars

C9_Witness ==
    /\ g = MiscGrammar
    /\ input = <<X, Z, Z>>
    /\ out = SyntaxError(<<EOF>>)
    /\ pos = 3

\* C10: the expected list of every SyntaxError raised holds no terminal
\* twice and lists the declared terminals in ascending symbol order (where
\* end-of-input stands in the list is left open).
C10_ExpectedListOrdered ==
    \A e \in {ctl.e, out} :
        e.k = "syntax"
        => \A i, j \in 1..Len(e.exp) :
              i < j => /\ e.exp[i] # e.exp[j]
                       /\ (e.exp[i] # EOF /\ e.exp[j] # EOF) => e.exp[i] < e.exp[j]

(***************************************************************************)
(* Properties of the generator (under GenSpec).                            *)
(***************************************************************************)
IsPrefix(s, t) == Len(s) <= Len(t) /\ SubSeq(t, 1, Len(s)) = s
Chunks(t) == SelectSeq(file, LAMBDA c : c.t = t)
Routines == [i \in 1..Len(Chunks("fn")) |-> Chunks("fn")[i].a]
UsedRoutines ==
    LET els == SelectSeq(g.elements, LAMBDA el : /\ el.kind \in {"Start", "Rule"}
                                                  /\ g.rules[el.ref].used)
    IN  [i \in 1..Len(els) |-> els[i].ref]
Finished == gpc.at = "done" /\ ret = "ok"

\* C11: generation writes no routine, and nothing else, for a Start or Rule
\* element whose used flag is false, whatever its body is; it writes exactly
\* one routine for each Start or Rule element whose used flag is true, in the
\* order of the module's elements; and it leaves the module (flags and sets)
\* as it was.
C11_UnusedElided ==
    /\ [] ( /\ IsPrefix(Routines, UsedRoutines)
            /\ Finished => Routines = UsedRoutines )
    /\ [][ /\ g' = g
           /\ (/\ gpc.at = "element"
               /\ g.elements[gpc.i].kind \in {"Start", "Rule"}
               /\ ~g.rules[g.elements[gpc.i].ref].used)
              => (file' = file /\ attempts' = attempts /\ ret' = ret) ]_vars

C11_Witness ==
    /\ Finished
    /\ ~g.rules[3].used /\ g.rules[4].used /\ g.rules[1].used
    /\ Routines = << 1, 2, 4 >>
    /\ \E i \in 1..Len(file) : file[i].t = "cancel"

Defined == { file[i].text : i \in { j \in 1..Len(file) : file[j].t \in {"define", "define_typed"} } }
Referenced == UNION { Range(file[i].pats) \cup Range(file[i].errs) : i \in 1..Len(file) }

\* C13: in a file that was written completely, every pattern_ and default_
\* macro that a rendered set invokes is defined by the file, and every
\* declared token has both its macros, names that begin with an underscore
\* included.
C13_RenderedNamesDefined ==
    Finished => /\ Referenced \subseteq Defined
                /\ \A i \in 1..Len(g.elements) :
                      g.elements[i].kind = "Token"
                      => /\ (<< "pattern_" >> \o g.names[g.elements[i].ref]) \in Defined
                         /\ (<< "default_" >> \o g.names[g.elements[i].ref]) \in Defined

(***************************************************************************)
(* Properties of the emitted parser, continued (under Spec).               *)
(***************************************************************************)
\* C14: a Concat without an error operand runs its operands in order, one
\* after the other; when an operand fails the sequence is left at once with
\* that failure unchanged, no later operand runs and no token is consumed;
\* the sequence returns Ok only after its last operand has succeeded.  With
\* start: X ('B')* [Y] #1 Z the input [B, Y, Z] fails at the first operand
\* with {X}, and [X, Y, Y] fails at the last one with {Z} after the action.
C14_ConcatStopsAtFirstFailure ==
    /\ [][ /\ (/\ ctl.m = "ok" /\ Len(stack) > 0 /\ Top.k = "concat"
               /\ g.nodes[Top.n].error = 0)
              => IF Top.i < Len(g.nodes[Top.n].ops)
                 THEN /\ stack' = [stack EXCEPT ![Len(stack)].i = Top.i + 1]
                      /\ ctl'.m = "exec"
                      /\ ctl'.n = g.nodes[Top.n].ops[Top.i + 1]
                      /\ pos' = pos
                 ELSE /\ stack' = SubSeq(stack, 1, Len(stack) - 1)
                      /\ ctl' = ctl
                      /\ pos' = pos
           /\ (/\ ctl.m = "err" /\ Len(stack) > 0 /\ Top.k = "concat"
               /\ g.nodes[Top.n].error = 0)
              => /\ stack' = SubSeq(stack, 1, Len(stack) - 1)
                 /\ ctl' = ctl
                 /\ pos' = pos
                 /\ log' = log ]_vars
    /\ [] ( (g = MiscGrammar /\ ctl.m = "done")
            => /\ input = <<B, Y, Z>>
                  => /\ out = SyntaxError(<<X>>)
                     /\ pos = 1
                     /\ { log[i].b : i \in Events("op") } = {1}
                     /\ Events("consume") = {} /\ Events("action") = {}
               /\ input = <<X, Y, Y>>
                  => /\ out = SyntaxError(<<Z>>)
                     /\ pos = 3
                     /\ [ i \in 1..5 |-> Ev("op", 1, i) ]
                        = SelectSeq(log, LAMBDA e : e.ev = "op")
                     /\ Cardinality(Events("action")) = 1 )

C14_Witness ==
    /\ g = MiscGrammar
    /\ input = <<X, Y, Y>>
    /\ ctl.m = "done"
    /\ out = SyntaxError(<<Z>>)
    /\ Cardinality(Events("consume")) = 2

\* What the step being taken appended to the log.
NewEvents == Range(SubSeq(log', Len(log) + 1, Len(log')))
Rendered(S) == IF S = {} THEN {EOF} ELSE S

\* C15 (as stated): at a Star, op is executed when the lookahead is in
\* first(op) and the predicate, if any, holds; the loop exits normally only
\* at a lookahead in follow; at any other lookahead it fails with expected
\* set predict of the Star, and the failing lookahead is not in that set.
C15_StarLoop ==
    [][ (ctl.m = "exec" /\ g.nodes[ctl.n].kind = "Star")
        => LET op == g.nodes[ctl.n].ops[1]
               refused == Ev("guard", op, 0) \in NewEvents
           IN  /\ (Current \in FirstOfOp(ctl.n) /\ ~refused) => ctl' = Exec(op)
               /\ ctl'.m = "ok" => Current \in g.nodes[ctl.n].follow
               /\ (~(Current \in FirstOfOp(ctl.n) /\ ~refused)
                   /\ Current \notin g.nodes[ctl.n].follow)
                  => /\ ctl'.m = "err"
                     /\ ctl'.e.k = "syntax"
                     /\ Range(ctl'.e.exp) = g.nodes[ctl.n].predict
                     /\ Current \notin Range(ctl'.e.exp) ]_vars

\* C15 (amended): the sets are read through their rendering (the set, or
\* end-of-input for the empty set).  op is executed when the lookahead is in
\* first(op) and the predicate, if any, holds, and the loop then comes back
\* to the same test; otherwise the loop exits normally, consuming nothing,
\* when the lookahead is in follow; otherwise it fails with the list
\* rendered from predict.  The failing lookahead is outside that list
\* unless it is in first(op) and the predicate was false.
C15_StarLoopRendered ==
    [][ /\ (ctl.m = "exec" /\ g.nodes[ctl.n].kind = "Star")
           => LET op == g.nodes[ctl.n].ops[1]
                  refused == Ev("guard", op, 0) \in NewEvents
              IN  IF Current \in Rendered(FirstOfOp(ctl.n)) /\ ~refused
                  THEN /\ ctl' = Exec(op)
                       /\ stack' = Append(stack, Frame("star", ctl.n, 0, NoErr))
                       /\ pos' = pos
                  ELSE IF Current \in Rendered(g.nodes[ctl.n].follow)
                  THEN ctl' = Ok /\ stack' = stack /\ pos' = pos
                  ELSE /\ ctl' = Err(SyntaxError(
                                   IF g.nodes[ctl.n].predict = {} THEN <<EOF>>
                                   ELSE Ordered(g.nodes[ctl.n].predict)))
                       /\ stack' = stack /\ pos' = pos
                       /\ ~refused => Current \notin Range(ctl'.e.exp)
                       /\ refused => Current \in FirstOfOp(ctl.n)
        /\ (ctl.m = "ok" /\ Len(stack) > 0 /\ Top.k = "star")
           => (ctl' = Exec(Top.n) /\ pos' = pos) ]_vars

C15_Witness ==
    /\ g = StarGrammar({Y, EOF}, TRUE)
    /\ input = <<B, B>>
    /\ ctl.m = "done"
    /\ Cardinality(Events("iter")) = 1
    /\ \E i \in Events("guard") : log[i].b = 0
    /\ out = SyntaxError(<<EOF, B, Y>>)

ArgList(text) == [i \in 1..Len(Split(text, ",")) |-> Trim(Split(text, ",")[i])]
DeclaredNames(text) ==
    [i \in 1..Len(Split(text, ",")) |-> Trim(Split(Split(text, ",")[i], ":")[1])]

\* C17: in a file that was written completely, every call of a rule passes
\* depth + 1, then one argument for each of the other parameters that the
\* callee's signature declares (the stream, the shared parameters, the
\* callee's own parameters), in that order; and Parser::parse calls start
\* with 0 and one argument for each other parameter of start's signature.
C17_CallsMatchSignatures ==
    Finished
    => \A i, j \in 1..Len(file) :
          /\ (file[i].t = "call" /\ file[j].t = "fn" /\ file[j].a = file[i].a)
             => ArgList(file[i].args)
                = << << "depth + 1" >> >> \o Tail(DeclaredNames(file[j].text))
          /\ (file[i].t = "parse" /\ file[j].t = "fn" /\ file[j].a = file[i].a)
             => ArgList(file[i].args)
                = << << "0" >> >> \o Tail(DeclaredNames(file[j].text))

\* C18: at most one write fails in a run; once a write, or the creation of
\* the file, has failed, create_parser has returned the error, and nothing
\* is written or attempted afterwards.
C18_WriteFailureAborts ==
    /\ [] ( /\ attempts \in {Len(file), Len(file) + 1}
            /\ attempts = Len(file) + 1 => (ret = "err" /\ gpc.at = "done")
            /\ ret = "err" => gpc.at = "done"
            /\ gpc.at = "done" => ret \in {"ok", "err"} )
    /\ [][ /\ ret = "err" => UNCHANGED <<file, attempts, ret, gpc>>
           /\ (ret # "err" /\ ret' = "err")
              => /\ gpc' = GenAt("done", 0)
                 /\ IsPrefix(file, file')
                 /\ attempts' = Len(file') + (IF gpc.at = "create" THEN 0 ELSE 1) ]_vars

C18_Witness ==
    /\ ret = "err"
    /\ attempts = Len(file) + 1
    /\ Len(file) > 0
    /\ file[Len(file)].t = "or_else"
    /\ prev.ret = "none"

(***************************************************************************)
(* Properties of the emitted parser, continued (under Spec).               *)
(***************************************************************************)
\* C19 (as stated): at the position of an ErrorHandler member of a Concat
\* the handler's code does not run; the sequence goes on successfully if
\* the lookahead is in follow of the member and otherwise fails with that
\* follow set as expected set; the failure reaches the boundary of the
\* Concat, which treats it like any other; the handler's code runs only
\* from the resync loop.
C19_ErrorMemberIsLookaheadTest ==
    /\ [][ /\ ctl.m = "member"
              => /\ UNCHANGED <<pos, stack, log>>
                 /\ IF Current \in g.nodes[ctl.n].follow
                    THEN ctl' = Ok
                    ELSE /\ ctl'.m = "err"
                         /\ ctl'.e.k = "syntax"
                         /\ Range(ctl'.e.exp) = g.nodes[ctl.n].follow
           /\ (/\ ctl.m = "err" /\ Len(stack) > 0 /\ Top.k = "concat"
               /\ g.nodes[Top.n].error # 0)
              => /\ ctl' = ctl
                 /\ stack' = SubSeq(stack, 1, Len(stack) - 1)
                 /\ stack'[Len(stack')] = Frame("boundary", Top.n, 0, NoErr)
           /\ Events("handler")' # Events("handler")
              => (ctl.m = "exec" /\ Len(stack) > 0 /\ Top.k = "recover") ]_vars
    /\ [] ( (g = ResyncGrammar({Y}, {Z}) /\ ctl.m = "done")
            => /\ input = <<X, B, Y, Y>>
                  => (Events("handler") = {} /\ out = SyntaxError(<<EOF>>))
               /\ input = <<X, B, Y, Z>>
                  => (Events("handler") = {} /\ out = SyntaxError(<<Y>>)) )

\* C19 (amended): as stated, with follow of the member read through its
\* rendering: the test succeeds at a lookahead in follow, or at
\* end-of-input when follow is empty, and otherwise fails with the list
\* rendered from follow (end-of-input alone when follow is empty).
C19_ErrorMemberRendered ==
    /\ [][ /\ ctl.m = "member"
              => /\ UNCHANGED <<pos, stack, log>>
                 /\ IF Current \in Rendered(g.nodes[ctl.n].follow)
                    THEN ctl' = Ok
                    ELSE ctl' = Err(SyntaxError(IF g.nodes[ctl.n].follow = {} THEN <<EOF>>
                                                ELSE Ordered(g.nodes[ctl.n].follow)))
           /\ (/\ ctl.m = "err" /\ Len(stack) > 0 /\ Top.k = "concat"
               /\ g.nodes[Top.n].error # 0)
              => /\ ctl' = ctl
                 /\ stack' = SubSeq(stack, 1, Len(stack) - 1)
                 /\ stack'[Len(stack')] = Frame("boundary", Top.n, 0, NoErr)
           /\ Events("handler")' # Events("handler")
              => (ctl.m = "exec" /\ Len(stack) > 0 /\ Top.k = "recover") ]_vars
    /\ [] ( (g = ResyncGrammar({Y}, {Z}) /\ ctl.m = "done")
            => /\ input = <<X, B, Y, Y>>
                  => (Events("handler") = {} /\ out = SyntaxError(<<EOF>>))
               /\ input = <<X, B, Y, Z>>
                  => (Events("handler") = {} /\ out = SyntaxError(<<Y>>)) )

C19_Witness ==
    /\ g = ResyncGrammar({Y}, {Z})
    /\ input = <<X, B, Y, Z>>
    /\ ctl.m = "done"
    /\ out = SyntaxError(<<Y>>)
    /\ \E i \in Events("op") : log[i].b = 4
    /\ Events("reraise") # {}

\* C20: in the resync loop a lookahead that is in follow(error) and in
\* cancel(error) starts the recovery (the handler runs, the construct
\* succeeds) and does not re-raise; when follow(error) is empty the
\* recovery is started at end-of-input and at no other lookahead; a failure
\* caught at end-of-input is re-raised before the loop, so the loop sees
\* end-of-input only after it has skipped a token.  With follow {Y},
\* cancel {Y, Z} the input [X, G, Y] recovers at Y; with follow {},
\* cancel {Z} the input [X, G] recovers at end-of-input.
C20_FollowBeforeCancel ==
    /\ [][ /\ (/\ ctl.m = "resync"
               /\ Current \in ErrorOf(ctl.n).follow
               /\ Current \in ErrorOf(ctl.n).cancel)
              => /\ ctl' = Exec(g.nodes[ctl.n].error)
                 /\ stack' = Append(stack, Frame("recover", ctl.n, 0, ctl.e))
                 /\ Events("reraise")' = Events("reraise")
           /\ (ctl.m = "resync" /\ ErrorOf(ctl.n).follow = {})
              => (ctl'.m = "exec" <=> Current = EOF)
           /\ (ctl.m = "err" /\ Len(stack) > 0 /\ Top.k = "boundary" /\ Current = EOF)
              => (ctl' = Err(ctl.e) /\ pos' = pos) ]_vars
    /\ [] ( /\ (ctl.m = "resync" /\ Current = EOF)
               => /\ Len(input) > 0
                  /\ log[Len(log)] = Ev("skip", ctl.n, input[Len(input)])
            /\ (g = ResyncGrammar({Y}, {Y, Z}) /\ input = <<X, G, Y>> /\ ctl.m = "done")
               => /\ Cardinality(Events("recovered")) = 1
                  /\ Cardinality(Events("handler")) = 1
                  /\ Events("reraise") = {}
                  /\ pos = 3
            /\ (g = ResyncGrammar({}, {Z}) /\ input = <<X, G>> /\ ctl.m = "done")
               => /\ Cardinality(Events("skip")) = 1
                  /\ Cardinality(Events("handler")) = 1
                  /\ out.k = "ok" )

C20_Witness ==
    /\ g = ResyncGrammar({Y}, {Y, Z})
    /\ input = <<X, G, Y>>
    /\ ctl.m = "done"
    /\ Cardinality(Events("recovered")) = 1
    /\ log[Len(log)].ev = "recovered"
    /\ log[Len(log)].b = Y

====
